---- MODULE Spec2Model ----
(***************************************************************************)
(* The runnable execution handle of crates/runnable/src/handle.rs:        *)
(*   - Handle: a clonable, cancellable, awaitable wrapper around the      *)
(*     future of a child process (Shared<Task<Abortable<fut>>>);          *)
(*   - PendingOutput: two drain tasks (stdout, stderr) that append to a   *)
(*     shared buffer and forward each line on an unbounded channel.       *)
(*                                                                         *)
(* Library semantics the code relies on (futures 0.3, gpui):              *)
(*   - a spawned gpui Task is driven by its executor, whether or not the  *)
(*     Task value is polled;                                               *)
(*   - Abortable::poll tests the abort flag before it polls the inner     *)
(*     future; a poll is one step, so an abort that races with a poll     *)
(*     counts as before it or after it;                                    *)
(*   - Shared memoizes the inner future's output when a clone of the      *)
(*     Shared polls it; Shared::peek never polls, and it returns None on  *)
(*     a Shared that has already returned Ready from its own poll;        *)
(*   - a clone of a Shared copies its `inner` reference.                  *)
(***************************************************************************)
EXTENDS Integers, Sequences, FiniteSets, TLC

(***************************************************************************)
(* Bounds of the model.                                                    *)
(***************************************************************************)
\* Handles (the original and its clones) that may exist.
NumHandles == 3
\* Exit statuses are 0..MaxStatus.
MaxStatus == 1
\* PendingOutput objects a handle may be constructed with are 1..NumOutputs.
NumOutputs == 1
\* Calls of result() that are recorded.
MaxResultCalls == 2
\* Runnables in the inventory the picker lists.
NumRunnables == 2
\* update_matches tasks that may be in flight together.
MaxUpdates == 2
\* Positions of the mouse and corners of bounds are 0..MaxCoord.
MaxCoord == 2

HandleIds == 1..NumHandles
ExitStatuses == 0..MaxStatus
ProcErrors == {"launch"}

(***************************************************************************)
(* Values.  Every value is a record with a tag, so that values of         *)
(* different shapes compare.                                               *)
(***************************************************************************)
None == [tag |-> "None"]
Some(v) == [tag |-> "Some", val |-> v]
Pending == [tag |-> "Pending"]
Ready(v) == [tag |-> "Ready", val |-> v]
Ok(v) == [tag |-> "Ok", val |-> v]
Err(e) == [tag |-> "Err", val |-> e]

\* futures::stream::Aborted, re-exported as RunnableTerminated.
RunnableTerminated == [tag |-> "Aborted"]

\* Result<ExitStatus, Arc<anyhow::Error>>: what the process future resolves to.
ProcResults == {Ok(s) : s \in ExitStatuses} \cup {Err(e) : e \in ProcErrors}

\* The `output` argument of Handle::new.
Outputs == {None} \cup {Some(p) : p \in 1..NumOutputs}

ExecutionResult(st, out) == [status |-> st, output |-> out]

VARIABLES
    \* ---- Handle ----
    procFut,        \* the caller-supplied future: Pending, or the value it will return
    aborted,        \* the flag shared by cancel_token and the AbortRegistration
    task,           \* output of the spawned Task: None until the Task has finished
    driven,         \* how many times the process future has returned Ready
    shared,         \* the Shared's memoized output: None until a clone's poll saw it
    handles,        \* the Handle values that exist
    inner,          \* inner[h]: whether h.fut still holds its Shared `inner`
    output,         \* the `output` field, the same in every clone
    awaited,        \* awaited[h]: what polling h resolved to (None: not resolved)
    waiting,        \* the handles whose last poll returned Pending (waker registered)
    resultLog,      \* the calls of result() made so far, in order
    cancelledEarly, \* cancel was invoked before the Task finished
    cancelledLate,  \* cancel was invoked after the Shared memoized a process result
    \* ---- PendingOutput ----
    stream,         \* stream[s]: the bytes the child writes to s before closing it
    pos,            \* pos[s]: how many bytes of s its drain has read
    pc,             \* pc[s]: where the drain of s stands in handle_output
    buffer,         \* buffer[s]: the drain's scratch Vec<u8>
    full_output,    \* the accumulation buffer, Arc<Mutex<String>>
    chan,           \* the lines queued in the unbounded channel
    received,       \* the lines taken from the receiving end, in order
    rxOpen,         \* the receiving end has not been dropped
    sendFailed,     \* auxiliary: a send has returned an error
    fo,             \* fo[c]: where caller c of full_output() stands, and its result
    lock,           \* who holds the Mutex of the accumulation buffer
    eos,            \* the receiving end has returned None: the stream is finished
    \* ---- RunnablesModalDelegate ----
    candidates,     \* the delegate's candidates: Vec<Token>
    matches,        \* the delegate's matches: Vec<StringMatch>
    selected_index, \* the delegate's selected_index
    scheduled,      \* the runnables of the inventory that were scheduled
    updates,        \* the update_matches tasks in flight, in the order of their spawning
    lastConfirm,    \* what the last confirm indexed, and how it ended
    pickerAlive,    \* the picker view has not been released
    \* ---- Div ----
    active_state,   \* DivState.active_state: ActiveState {group, element}
    listener,       \* the mouse listener the last paint registered
    style,          \* the active styles compute_style applied in the last paint
    pressed,        \* the mouse button is held down
    dirty           \* cx.notify() has asked for a repaint that has not happened

handleVars == <<procFut, aborted, task, driven, shared, handles, inner, output,
                awaited, waiting, resultLog, cancelledEarly, cancelledLate>>

outputVars ==
    <<stream, pos, pc, buffer, full_output, chan, received, rxOpen, sendFailed, fo,
      lock, eos>>

pickerVars ==
    <<candidates, matches, selected_index, scheduled, updates, lastConfirm, pickerAlive>>

divVars == <<active_state, listener, style, pressed, dirty>>

uiVars == <<pickerVars, divVars>>

vars == <<handleVars, outputVars, uiVars>>

(***************************************************************************)
(* Handle::new                                                             *)
(***************************************************************************)
InitHandle ==
    /\ procFut = Pending
    /\ aborted = FALSE
    /\ task = None
    /\ driven = 0
    /\ shared = None
    /\ handles = {1}
    /\ inner = [h \in HandleIds |-> h = 1]
    /\ output \in Outputs
    /\ awaited = [h \in HandleIds |-> None]
    /\ waiting = {}
    /\ resultLog = << >>
    /\ cancelledEarly = FALSE
    /\ cancelledLate = FALSE

\* The child process exits, or fails to launch or run: the process future will
\* return r when it is next polled.
ProcessResolves(r) ==
    /\ procFut = Pending
    /\ procFut' = Ready(r)
    /\ UNCHANGED <<aborted, task, driven, shared, handles, inner, output, awaited,
                   waiting, resultLog, cancelledEarly, cancelledLate>>
    /\ UNCHANGED <<outputVars, uiVars>>

\* (Variant of Abortable::poll: the abort flag is looked at only when the inner
\* future is ready.)
AbortablePollInnerFirst(ab, fut) ==
    IF fut.tag = "Ready"
    THEN (IF ab THEN Ready(Err(RunnableTerminated)) ELSE Ready(Ok(fut.val)))
    ELSE Pending

\* Abortable::poll: the abort flag is tested first, then the inner future is polled.
AbortablePoll(ab, fut) ==
    IF ab THEN Ready(Err(RunnableTerminated))
    ELSE IF fut.tag = "Ready" THEN Ready(Ok(fut.val))
    ELSE Pending

\* The executor polls a spawned task until it has finished, never after.
\* (Variant: a finished task is polled again.)
TaskRunnableAlways == TRUE
TaskRunnable == task = None

\* One poll of the spawned Task by the foreground executor.
TaskPoll ==
    /\ TaskRunnable
    /\ LET r == AbortablePoll(aborted, procFut) IN
        /\ r.tag = "Ready"
        /\ task' = Some(r.val)
        /\ driven' = IF r.val.tag = "Ok" THEN driven + 1 ELSE driven
    /\ UNCHANGED <<procFut, aborted, shared, handles, inner, output, awaited,
                   waiting, resultLog, cancelledEarly, cancelledLate>>
    /\ UNCHANGED <<outputVars, uiVars>>

\* (Variant of the abort: the drain Tasks are dropped with the wrapped future.)
CancelDropsDrains ==
    /\ aborted' = TRUE
    /\ cancelledEarly' = (cancelledEarly \/ task = None)
    /\ cancelledLate' = (cancelledLate \/ (shared.tag = "Some" /\ shared.val.tag = "Ok"))
    /\ pc' = [s \in DOMAIN pc |-> IF pc[s] = "done" THEN "done" ELSE "failed"]
    /\ UNCHANGED <<procFut, task, driven, shared, handles, inner, output, awaited,
                   waiting, resultLog>>
    /\ UNCHANGED <<stream, pos, buffer, full_output, chan, received, rxOpen,
                   sendFailed, fo, lock, eos>>
    /\ UNCHANGED uiVars

\* termination_handle().abort(), from any holder of the handle or of a clone.
Cancel ==
    /\ aborted' = TRUE
    /\ cancelledEarly' = (cancelledEarly \/ task = None)
    /\ cancelledLate' = (cancelledLate \/ (shared.tag = "Some" /\ shared.val.tag = "Ok"))
    /\ UNCHANGED <<procFut, task, driven, shared, handles, inner, output, awaited,
                   waiting, resultLog>>
    /\ UNCHANGED <<outputVars, uiVars>>

\* #[derive(Clone)]: the Shared's clone copies the reference to `inner`.
CloneHandle(h, n) ==
    /\ h \in handles
    /\ n \notin handles
    /\ handles' = handles \cup {n}
    /\ inner' = [inner EXCEPT ![n] = inner[h]]
    /\ UNCHANGED <<procFut, aborted, task, driven, shared, output, awaited,
                   waiting, resultLog, cancelledEarly, cancelledLate>>
    /\ UNCHANGED <<outputVars, uiVars>>

\* Shared::poll on a clone that holds `inner`: the memoized output if there is one,
\* else a poll of the Task.
\* (Variant: every poll consults the abort flag and the Task, not the memo.)
SharedPollUnmemoized ==
    IF aborted THEN Ready(Err(RunnableTerminated))
    ELSE IF task.tag = "Some" THEN Ready(task.val) ELSE Pending
SharedPoll ==
    IF shared.tag = "Some" THEN Ready(shared.val)
    ELSE IF task.tag = "Some" THEN Ready(task.val)
    ELSE Pending

\* The mapping of Handle::poll from the Shared's output to the handle's.
\* (Variants: the output handle is left out; a process error is reported as
\* a termination.)
PollOutputNoCapture(res, out) ==
    IF res.tag = "Ok" THEN Ok(ExecutionResult(res.val, None)) ELSE Err(res.val)
PollOutputFlattened(res, out) ==
    IF res.tag = "Ok" /\ res.val.tag = "Ok"
    THEN Ok(ExecutionResult(res.val, out))
    ELSE Err(RunnableTerminated)
PollOutput(res, out) ==
    IF res.tag = "Ok" THEN Ok(ExecutionResult(res.val, out)) ELSE Err(res.val)

\* impl Future for Handle, Poll::Pending: the Shared is not complete and the Task
\* has not finished; the Shared records h's waker and h keeps its `inner`.
HandlePollPending(h) ==
    /\ h \in handles
    /\ inner[h]
    /\ SharedPoll.tag = "Pending"
    /\ h \notin waiting
    /\ waiting' = waiting \cup {h}
    /\ UNCHANGED <<procFut, aborted, task, driven, shared, handles, inner, output,
                   awaited, resultLog, cancelledEarly, cancelledLate>>
    /\ UNCHANGED <<outputVars, uiVars>>

\* (Variant of the poll: the handle resolves only when both drains have ended.)
HandlePollAfterDrains(h) ==
    /\ h \in handles
    /\ inner[h]
    /\ \A s \in DOMAIN pc : pc[s] \in {"done", "failed"}
    /\ LET r == SharedPoll IN
        /\ r.tag = "Ready"
        /\ shared' = Some(r.val)
        /\ inner' = [inner EXCEPT ![h] = FALSE]
        /\ awaited' = [awaited EXCEPT ![h] = Some(PollOutput(r.val, output))]
        /\ waiting' = waiting \ {h}
    /\ UNCHANGED <<procFut, aborted, task, driven, handles, output, resultLog,
                   cancelledEarly, cancelledLate>>
    /\ UNCHANGED <<outputVars, uiVars>>

\* impl Future for Handle, Poll::Ready: the Shared becomes complete (if it was
\* not), h gives up its `inner` and the output is mapped to the handle's.  Polling
\* a Shared that has returned Ready panics, so a holder polls h only while h.fut
\* holds `inner`.
HandlePoll(h) ==
    /\ h \in handles
    /\ inner[h]
    /\ LET r == SharedPoll IN
        /\ r.tag = "Ready"
        /\ shared' = Some(r.val)
        /\ inner' = [inner EXCEPT ![h] = FALSE]
        /\ awaited' = [awaited EXCEPT ![h] = Some(PollOutput(r.val, output))]
        /\ waiting' = waiting \ {h}
    /\ UNCHANGED <<procFut, aborted, task, driven, handles, output, resultLog,
                   cancelledEarly, cancelledLate>>
    /\ UNCHANGED <<outputVars, uiVars>>

\* Shared::peek.
Peek(h) == IF inner[h] THEN shared ELSE None

\* Handle::result.
ResultOutput(res, out) ==
    IF res.tag = "Ok" THEN Ok(ExecutionResult(res.val, out)) ELSE Err(res.val)

Result(h) ==
    LET p == Peek(h) IN
    IF p.tag = "Some" THEN Some(ResultOutput(p.val, output)) ELSE None

\* A call of result() on h; the call and what it returned are recorded.
CallResult(h) ==
    /\ h \in handles
    /\ Len(resultLog) < MaxResultCalls
    /\ resultLog' = Append(resultLog,
                           [ret |-> Result(h),
                            finished |-> task.tag = "Some",
                            cancelled |-> cancelledEarly])
    /\ UNCHANGED <<procFut, aborted, task, driven, shared, handles, inner, output,
                   awaited, waiting, cancelledEarly, cancelledLate>>
    /\ UNCHANGED <<outputVars, uiVars>>

NextHandle ==
    \/ \E r \in ProcResults : ProcessResolves(r)
    \/ TaskPoll
    \/ Cancel
    \/ \E h, n \in HandleIds : CloneHandle(h, n)
    \/ \E h \in HandleIds : HandlePollPending(h)
    \/ \E h \in HandleIds : HandlePoll(h)
    \/ \E h \in HandleIds : CallResult(h)

(***************************************************************************)
(* PendingOutput and handle_output                                         *)
(***************************************************************************)
\* Longest stream content (in bytes) that is enumerated.
MaxStreamLen == 2

Streams == {"stdout", "stderr"}

\* b'\n', the delimiter of read_until.
NL == 10
\* U+FFFD, what from_utf8_lossy puts in place of an invalid sequence.
ReplacementChar == 65533
\* The bytes a stream may carry: 'x', the newline, and 0xFF, which is never valid
\* in UTF-8.
ByteAlphabet == {120, NL, 255}

ByteStrings(n) == UNION {[1..k -> ByteAlphabet] : k \in 0..n}

\* (Variant of read_until: a reader of whole lines, which returns nothing when no
\* delimiter is left.)
ReadUntilDelimited(bytes, p) ==
    LET nls == {i \in (p + 1)..Len(bytes) : bytes[i] = NL}
    IN IF nls = {} THEN << >>
       ELSE SubSeq(bytes, p + 1, CHOOSE i \in nls : \A j \in nls : i <= j)

\* read_until(b'\n', buf) from offset p: the bytes up to and including the next
\* delimiter, or up to the end of the stream when there is none.
ReadUntil(bytes, p) ==
    LET nls == {i \in (p + 1)..Len(bytes) : bytes[i] = NL}
        last == IF nls = {} THEN Len(bytes)
                ELSE CHOOSE i \in nls : \A j \in nls : i <= j
    IN SubSeq(bytes, p + 1, last)

\* String::from_utf8_lossy on the bytes of the model: ASCII is kept, 0xFF is
\* replaced.
FromUtf8Lossy(bytes) ==
    [i \in 1..Len(bytes) |-> IF bytes[i] < 128 THEN bytes[i] ELSE ReplacementChar]

\* buffer.clear()  (Variant: the scratch buffer is not cleared.)
BufferKept(buf) == buf
BufferClear(buf) == << >>

\* String::push_str  (Variant: the line replaces the text.)
PushStrOverwrite(str, line) == line
PushStr(str, line) == str \o line

\* UnboundedSender::unbounded_send on an open channel: the queue is first in,
\* first out.  (Variant: last in, first out.)
ChanSendFront(q, m) == <<m>> \o q
ChanSend(q, m) == Append(q, m)

\* The order of the loop body of handle_output: read, append, send, yield.
\* (Variant: the line is sent before it is appended.)
NextPcSendFirst(at) ==
    CASE at = "read" -> "send"
      [] at = "send" -> "push"
      [] at = "push" -> "yield"
      [] at = "yield" -> "read"
NextPc(at) ==
    CASE at = "read" -> "push"
      [] at = "push" -> "send"
      [] at = "send" -> "yield"
      [] at = "yield" -> "read"

\* `.ok()` on the result of unbounded_send: a failed send does not end the drain.
\* (Variant: `?` in its place.)
SendErrorPropagated == TRUE
SendErrorEndsDrain == FALSE

\* UnboundedReceiver::try_next / next on the one receiver all subscribers share:
\* the line taken leaves the queue.  (Variant: it stays for the other readers.)
ChanAfterRecvKept(q) == q
ChanAfterRecv(q) == Tail(q)

\* The holders of subscribe()'s Arc: the terminal the picker opens on the stream
\* (modal.rs) and any other holder of handle.output.
Subscribers == {"terminal", "tracker"}

\* Callers of full_output(), each on its own clone of the PendingOutput.
NumCallers == 2
Callers == 1..NumCallers

\* The Mutex around the accumulation buffer: held by the drain of a stream, by a
\* caller of full_output(), or by nobody.
Unlocked == [drain |-> "none", caller |-> 0]
HeldByDrain(s) == [drain |-> s, caller |-> 0]
HeldByCaller(c) == [drain |-> "none", caller |-> c]

\* PendingOutput::new: both drains are spawned on the background executor, a pool
\* of threads, so their steps interleave at every access to the shared buffer and
\* channel.  The child's streams hold whatever it will write.
InitOutput ==
    /\ stream \in [Streams -> ByteStrings(MaxStreamLen)]
    /\ pos = [s \in Streams |-> 0]
    /\ pc = [s \in Streams |-> "read"]
    /\ buffer = [s \in Streams |-> << >>]
    /\ full_output = << >>
    /\ chan = << >>
    /\ received = << >>
    /\ rxOpen = TRUE
    /\ sendFailed = FALSE
    /\ fo = [c \in Callers |-> [pc |-> "idle", ret |-> None]]
    /\ lock = Unlocked
    /\ eos = FALSE

\* buffer.clear(); read_until(..).await returns Ok(bytes_read); a read of zero
\* bytes ends the drain.
DrainRead(s) ==
    /\ pc[s] = "read"
    /\ LET seg == ReadUntil(stream[s], pos[s]) IN
        /\ buffer' = [buffer EXCEPT ![s] = BufferClear(buffer[s]) \o seg]
        /\ pos' = [pos EXCEPT ![s] = pos[s] + Len(seg)]
        /\ pc' = [pc EXCEPT ![s] = IF Len(seg) = 0 THEN "done" ELSE NextPc("read")]
    /\ UNCHANGED <<stream, full_output, chan, received, rxOpen>>
    /\ UNCHANGED <<uiVars, handleVars, sendFailed, fo, lock, eos>>

\* (Variant of the read error: it ends the other drain as well.)
DrainReadErrorFatal(s) ==
    /\ pc[s] = "read"
    /\ pc' = [t \in DOMAIN pc |-> IF pc[t] = "done" THEN "done" ELSE "failed"]
    /\ buffer' = [buffer EXCEPT ![s] = BufferClear(buffer[s])]
    /\ UNCHANGED <<stream, pos, full_output, chan, received, rxOpen>>
    /\ UNCHANGED <<uiVars, handleVars, sendFailed, fo, lock, eos>>

\* read_until(..).await returns Err: `?` ends the drain, log_err logs the error.
DrainReadError(s) ==
    /\ pc[s] = "read"
    /\ pc' = [pc EXCEPT ![s] = "failed"]
    /\ buffer' = [buffer EXCEPT ![s] = BufferClear(buffer[s])]
    /\ UNCHANGED <<stream, pos, full_output, chan, received, rxOpen>>
    /\ UNCHANGED <<uiVars, handleVars, sendFailed, fo, lock, eos>>

\* capture.lock().push_str(&output_line)
DrainPush(s) ==
    /\ pc[s] = "push"
    /\ full_output' = PushStr(full_output, FromUtf8Lossy(buffer[s]))
    /\ pc' = [pc EXCEPT ![s] = NextPc("push")]
    /\ UNCHANGED <<stream, pos, buffer, chan, received, rxOpen>>
    /\ UNCHANGED <<uiVars, handleVars, sendFailed, fo, lock, eos>>

\* output_tx.unbounded_send(output_line.into_owned()).ok(): a send to a dropped
\* receiver fails and the failure is ignored.  `src` is auxiliary: it names the
\* drain that sent the line and the program never reads it.
DrainSend(s) ==
    /\ pc[s] = "send"
    /\ chan' = IF rxOpen
               THEN ChanSend(chan, [src |-> s, text |-> FromUtf8Lossy(buffer[s])])
               ELSE chan
    /\ pc' = [pc EXCEPT ![s] = IF ~rxOpen /\ SendErrorEndsDrain THEN "failed"
                                ELSE NextPc("send")]
    /\ sendFailed' = (sendFailed \/ ~rxOpen)
    /\ UNCHANGED <<stream, pos, buffer, full_output, received, rxOpen>>
    /\ UNCHANGED <<uiVars, handleVars, fo, lock, eos>>

\* smol::future::yield_now().await
DrainYield(s) ==
    /\ pc[s] = "yield"
    /\ pc' = [pc EXCEPT ![s] = NextPc("yield")]
    /\ UNCHANGED <<stream, pos, buffer, full_output, chan, received, rxOpen>>
    /\ UNCHANGED <<uiVars, handleVars, sendFailed, fo, lock, eos>>

\* Holder k of subscribe()'s receiver locks it and takes the next line.  `by` is
\* auxiliary: it names the reader.
Recv(k) ==
    /\ rxOpen
    /\ chan # << >>
    /\ received' = Append(received, [src |-> Head(chan).src,
                                     text |-> Head(chan).text, by |-> k])
    /\ chan' = ChanAfterRecv(chan)
    /\ UNCHANGED <<stream, pos, pc, buffer, full_output, rxOpen>>
    /\ UNCHANGED <<uiVars, handleVars, sendFailed, fo, lock, eos>>

\* The last Arc of output_lines_rx is dropped: the receiver goes, and the lines
\* still queued with it.
DropReceiver ==
    /\ rxOpen
    /\ rxOpen' = FALSE
    /\ chan' = << >>
    /\ UNCHANGED <<stream, pos, pc, buffer, full_output, received>>
    /\ UNCHANGED <<uiVars, handleVars, sendFailed, fo, lock, eos>>

NextOutput ==
    \/ \E s \in Streams : DrainRead(s)
    \/ \E s \in Streams : DrainReadError(s)
    \/ \E s \in Streams : DrainPush(s)
    \/ \E s \in Streams : DrainSend(s)
    \/ \E s \in Streams : DrainYield(s)
    \/ Recv("terminal")
    \/ DropReceiver

(***************************************************************************)
(* PendingOutput::full_output                                              *)
(***************************************************************************)
\* join_all(self.output_read_tasks).await: ready when both drain Tasks have
\* returned; a drain that ended on a read error has returned too, log_err having
\* taken the error.  (Variant: one Task suffices.)
JoinAnyReady == \E s \in Streams : pc[s] \in {"done", "failed"}
JoinAllReady == \A s \in Streams : pc[s] \in {"done", "failed"}

\* Caller c calls full_output(cx) on a clone of the PendingOutput, for the first
\* time or again, and awaits the Task it returns.  `ret` keeps what c's last call
\* returned.
FullOutputCall(c) ==
    /\ fo[c].pc \in {"idle", "done"}
    /\ fo' = [fo EXCEPT ![c].pc = "joining"]
    /\ UNCHANGED <<stream, pos, pc, buffer, full_output, chan, received, rxOpen,
                   sendFailed, lock, eos>>
    /\ UNCHANGED <<uiVars, handleVars>>

\* The join is ready: self.full_output.lock().clone() is the call's result.
FullOutputReturn(c) ==
    /\ fo[c].pc = "joining"
    /\ JoinAllReady
    /\ fo' = [fo EXCEPT ![c] = [pc |-> "done", ret |-> Some(full_output)]]
    /\ UNCHANGED <<stream, pos, pc, buffer, full_output, chan, received, rxOpen,
                   sendFailed, lock, eos>>
    /\ UNCHANGED <<uiVars, handleVars>>

\* One step of the drain of s, whichever it is.
DrainStep(s) ==
    \/ DrainRead(s)
    \/ DrainReadError(s)
    \/ DrainPush(s)
    \/ DrainSend(s)
    \/ DrainYield(s)

NextCalls ==
    \/ \E s \in Streams : DrainRead(s)
    \/ \E s \in Streams : DrainReadError(s)
    \/ \E s \in Streams : DrainPush(s)
    \/ \E s \in Streams : DrainSend(s)
    \/ \E s \in Streams : DrainYield(s)
    \/ \E c \in Callers : FullOutputCall(c)
    \/ \E c \in Callers : FullOutputReturn(c)

(***************************************************************************)
(* The Mutex of the accumulation buffer, step by step                      *)
(***************************************************************************)
\* DrainPush and FullOutputReturn take the lock, act and release it in one step.
\* Here the same statements are split at the lock, so that a holder of the lock
\* can be seen by the others.

\* The guard of `capture.lock()` is a temporary of the statement: it is dropped
\* at the statement's end.  (Variant: the guard is bound to a name that lives to
\* the end of the loop body.)
GuardKeptToLoopEnd(s) == HeldByDrain(s)
GuardAfterPush(s) == Unlocked

\* capture.lock() of a drain: it blocks while another holds the lock.
DrainLock(s) ==
    /\ pc[s] = "push"
    /\ lock = Unlocked
    /\ lock' = HeldByDrain(s)
    /\ UNCHANGED <<stream, pos, pc, buffer, full_output, chan, received, rxOpen,
                   sendFailed, fo, eos>>
    /\ UNCHANGED <<uiVars, handleVars>>

\* .push_str(&output_line); the guard is dropped.
DrainPushLocked(s) ==
    /\ pc[s] = "push"
    /\ lock = HeldByDrain(s)
    /\ full_output' = PushStr(full_output, FromUtf8Lossy(buffer[s]))
    /\ pc' = [pc EXCEPT ![s] = NextPc("push")]
    /\ lock' = GuardAfterPush(s)
    /\ UNCHANGED <<stream, pos, buffer, chan, received, rxOpen, sendFailed, fo, eos>>
    /\ UNCHANGED <<uiVars, handleVars>>

\* The end of the loop body: a guard that lived that long is dropped with it.
DrainYieldUnlocking(s) ==
    /\ pc[s] = "yield"
    /\ pc' = [pc EXCEPT ![s] = NextPc("yield")]
    /\ lock' = IF lock = HeldByDrain(s) THEN Unlocked ELSE lock
    /\ UNCHANGED <<stream, pos, buffer, full_output, chan, received, rxOpen,
                   sendFailed, fo, eos>>
    /\ UNCHANGED <<uiVars, handleVars>>

\* self.full_output.lock() of a caller whose join is ready.
FullOutputLock(c) ==
    /\ fo[c].pc = "joining"
    /\ JoinAllReady
    /\ lock = Unlocked
    /\ lock' = HeldByCaller(c)
    /\ UNCHANGED <<stream, pos, pc, buffer, full_output, chan, received, rxOpen,
                   sendFailed, fo, eos>>
    /\ UNCHANGED <<uiVars, handleVars>>

\* .clone(): the snapshot is the call's result; the guard is dropped.
FullOutputSnapshot(c) ==
    /\ lock = HeldByCaller(c)
    /\ fo' = [fo EXCEPT ![c] = [pc |-> "done", ret |-> Some(full_output)]]
    /\ lock' = Unlocked
    /\ UNCHANGED <<stream, pos, pc, buffer, full_output, chan, received, rxOpen,
                   sendFailed, eos>>
    /\ UNCHANGED <<uiVars, handleVars>>

\* One step of the drain of s with the lock visible.
DrainStepLocked(s) ==
    \/ DrainRead(s)
    \/ DrainReadError(s)
    \/ DrainLock(s)
    \/ DrainPushLocked(s)
    \/ DrainSend(s)
    \/ DrainYieldUnlocking(s)

NextLock ==
    \/ \E s \in Streams : DrainRead(s)
    \/ \E s \in Streams : DrainReadError(s)
    \/ \E s \in Streams : DrainLock(s)
    \/ \E s \in Streams : DrainPushLocked(s)
    \/ \E s \in Streams : DrainSend(s)
    \/ \E s \in Streams : DrainYieldUnlocking(s)
    \/ \E c \in Callers : FullOutputCall(c)
    \/ \E c \in Callers : FullOutputLock(c)
    \/ \E c \in Callers : FullOutputSnapshot(c)

(***************************************************************************)
(* The senders of the channel and its end of stream                        *)
(***************************************************************************)

\* A channel that counts as closed as soon as one of its senders is dropped.
SendersUntilOneDrops ==
    IF \E s \in Streams : pc[s] \in {"done", "failed"} THEN {} ELSE Streams

\* PendingOutput::new makes one channel; stdout_tx is a clone of its sender and
\* stderr_tx is the sender itself, moved.  Each is moved into handle_output of
\* one drain and dropped when that call returns, with Ok or with an error.
Senders == {s \in Streams : pc[s] \notin {"done", "failed"}}

\* Holder k of subscribe()'s receiver polls it while the queue is empty and no
\* sender is left: the stream yields None.
RecvEnd(k) ==
    /\ rxOpen
    /\ chan = << >>
    /\ Senders = {}
    /\ eos' = TRUE
    /\ UNCHANGED <<stream, pos, pc, buffer, full_output, chan, received, rxOpen>>
    /\ UNCHANGED <<uiVars, handleVars, sendFailed, fo, lock>>

(***************************************************************************)
(* RunnablesModalDelegate (crates/runnables_ui/src/modal.rs)               *)
(*                                                                         *)
(* The picker view and its delegate live on the main thread: a call of a   *)
(* delegate method and each stretch of an update_matches task between two  *)
(* awaits is one step.  Vec indices are counted from 0 as in the code; a   *)
(* sequence's element of index i is its (i + 1)-th.                        *)
(***************************************************************************)
Tokens == 1..NumRunnables

UpdateIds == 1..MaxUpdates

\* Inventory::list_runnables: the runnables of the inventory, in its order.
ListRunnables == [i \in 1..NumRunnables |-> i]

\* metadata().display_name(): a character shared with every other runnable of
\* the same parity, then one of its own.
DisplayName(t) == <<t % 2, 2 + t>>

\* The queries typed: the empty one, one that matches the runnables of odd
\* number, one that matches none.
Queries == {<< >>, <<1>>, <<2>>}

\* The characters of q occur in name, in q's order.
RECURSIVE IsSubsequence(_, _)
IsSubsequence(q, name) ==
    IF q = << >> THEN TRUE
    ELSE IF name = << >> THEN FALSE
    ELSE IF Head(q) = Head(name) THEN IsSubsequence(Tail(q), Tail(name))
    ELSE IsSubsequence(q, Tail(name))

\* candidates.retain(|runnable| !runnable.was_scheduled(cx))
Retain(tokens, done) == SelectSeq(tokens, LAMBDA t : t \notin done)

\* candidates.iter().enumerate().map(|(index, candidate)| StringMatchCandidate
\* {id: index, string: display_name, ..})
StringMatchCandidates(tokens) ==
    [i \in 1..Len(tokens) |-> [id |-> i - 1, string |-> DisplayName(tokens[i])]]

\* fuzzy::match_strings: one StringMatch for every candidate the query matches,
\* carrying the candidate's id and string.  The order among matches is the
\* candidates'.
MatchStrings(cands, query) ==
    LET hits == SelectSeq(cands, LAMBDA c : IsSubsequence(query, c.string))
    IN [i \in 1..Len(hits) |-> [candidate_id |-> hits[i].id, string |-> hits[i].string]]

Min(a, b) == IF a <= b THEN a ELSE b

\* A selection left where it was when the matches are installed.
SelectedKept(sel, n) == sel

\* if matches.is_empty() { 0 } else { min(selected_index, matches.len() - 1) }
SelectedAfterInstall(sel, n) == IF n = 0 THEN 0 ELSE Min(sel, n - 1)

\* A confirm has indexed out of bounds: the main thread panicked.
Panicked ==
    /\ lastConfirm # None
    /\ lastConfirm.val.outcome \in {"panic_matches", "panic_candidates"}

\* The sequence without its i-th element.
RemoveAt(seq, i) == SubSeq(seq, 1, i - 1) \o SubSeq(seq, i + 1, Len(seq))

\* RunnablesModalDelegate::new
InitPicker ==
    /\ candidates = << >>
    /\ matches = << >>
    /\ selected_index = 0
    /\ scheduled = {}
    /\ updates = << >>
    /\ lastConfirm = None
    /\ pickerAlive = TRUE

\* set_selected_index, called by the picker with the index of a listed match.
SetSelectedIndex(ix) ==
    /\ pickerAlive /\ ~Panicked
    /\ ix < Len(matches)
    /\ selected_index' = ix
    /\ UNCHANGED <<candidates, matches, scheduled, updates, lastConfirm, pickerAlive>>
    /\ UNCHANGED <<handleVars, outputVars, divVars>>

\* update_matches(query, cx): cx.spawn of the task; nothing of it has run yet.
UpdateMatches(q) ==
    /\ pickerAlive /\ ~Panicked
    /\ Len(updates) < MaxUpdates
    /\ updates' = Append(updates, [pc |-> "spawned", query |-> q, cands |-> << >>])
    /\ UNCHANGED <<candidates, matches, selected_index, scheduled, lastConfirm,
                   pickerAlive>>
    /\ UNCHANGED <<handleVars, outputVars, divVars>>

\* The task up to its await: picker.update replaces the candidates by the
\* inventory's runnables that were not scheduled and hands their names to the
\* matcher; a released picker ends the task.
UpdateCandidates(t) ==
    /\ ~Panicked
    /\ t \in 1..Len(updates)
    /\ updates[t].pc = "spawned"
    /\ IF pickerAlive
       THEN /\ candidates' = Retain(ListRunnables, scheduled)
            /\ updates' = [updates EXCEPT ![t] =
                              [pc |-> "matching", query |-> @.query,
                               cands |-> StringMatchCandidates(candidates')]]
       ELSE /\ updates' = RemoveAt(updates, t)
            /\ UNCHANGED candidates
    /\ UNCHANGED <<matches, selected_index, scheduled, lastConfirm, pickerAlive>>
    /\ UNCHANGED <<handleVars, outputVars, divVars>>

\* The task after its await: picker.update installs the matches and clamps the
\* selection; on a released picker the error is logged.  The task is over.
InstallMatches(t) ==
    /\ ~Panicked
    /\ t \in 1..Len(updates)
    /\ updates[t].pc = "matching"
    /\ updates' = RemoveAt(updates, t)
    /\ IF pickerAlive
       THEN /\ matches' = MatchStrings(updates[t].cands, updates[t].query)
            /\ selected_index' = SelectedAfterInstall(selected_index, Len(matches'))
       ELSE UNCHANGED <<matches, selected_index>>
    /\ UNCHANGED <<candidates, scheduled, lastConfirm, pickerAlive>>
    /\ UNCHANGED <<handleVars, outputVars, divVars>>

\* What confirm finds: runnable_cwd fails and it returns; matches[selected_index]
\* or candidates[ix] is out of bounds and it panics; or candidates[ix].schedule
\* is called, and succeeds or fails.  `token` is the runnable scheduled, if any,
\* and `named` tells whether candidates[ix] carries the name the match shows.
ConfirmOutcome(cwdOk, schedOk) ==
    IF ~cwdOk THEN [outcome |-> "no_cwd", named |-> FALSE, token |-> 0]
    ELSE IF selected_index >= Len(matches)
    THEN [outcome |-> "panic_matches", named |-> FALSE, token |-> 0]
    ELSE LET hit == matches[selected_index + 1]
             ix  == hit.candidate_id
         IN IF ix >= Len(candidates)
            THEN [outcome |-> "panic_candidates", named |-> FALSE, token |-> 0]
            ELSE [outcome |-> IF schedOk THEN "scheduled" ELSE "schedule_failed",
                  named |-> DisplayName(candidates[ix + 1]) = hit.string,
                  token |-> IF schedOk THEN candidates[ix + 1] ELSE 0]

\* confirm(secondary, cx).  lastConfirm keeps how the call ended.
Confirm(cwdOk, schedOk) ==
    /\ pickerAlive /\ ~Panicked
    /\ LET found == ConfirmOutcome(cwdOk, schedOk) IN
          /\ lastConfirm' = Some([outcome |-> found.outcome, named |-> found.named])
          /\ scheduled' = IF found.outcome = "scheduled"
                          THEN scheduled \cup {found.token}
                          ELSE scheduled
    /\ UNCHANGED <<candidates, matches, selected_index, updates, pickerAlive>>
    /\ UNCHANGED <<handleVars, outputVars, divVars>>

\* The modal is dismissed and the picker view released.
ReleasePicker ==
    /\ pickerAlive /\ ~Panicked
    /\ pickerAlive' = FALSE
    /\ UNCHANGED <<candidates, matches, selected_index, scheduled, updates, lastConfirm>>
    /\ UNCHANGED <<handleVars, outputVars, divVars>>

NextPicker ==
    \/ \E ix \in 0..NumRunnables : SetSelectedIndex(ix)
    \/ \E q \in Queries : UpdateMatches(q)
    \/ \E t \in UpdateIds : UpdateCandidates(t)
    \/ \E t \in UpdateIds : InstallMatches(t)
    \/ \E cwdOk, schedOk \in BOOLEAN : Confirm(cwdOk, schedOk)
    \/ ReleasePicker

(***************************************************************************)
(* Div's active state (crates/gpui3/src/elements/div.rs)                   *)
(*                                                                         *)
(* Positions are points of a line and bounds are intervals of it.  The     *)
(* listeners an element registers with cx.on_mouse_event while it paints   *)
(* are the ones a mouse event is dispatched to until the next paint, which *)
(* registers its own.  An event is dispatched in the capture phase and     *)
(* then in the bubble phase, unless a listener of another element stops    *)
(* it in between.                                                           *)
(***************************************************************************)
Points == 0..MaxCoord

Boxes == {b \in [lo : Points, hi : Points] : b.lo <= b.hi}

\* Bounds::contains_point
ContainsPoint(box, p) == box.lo <= p /\ p <= box.hi

\* group_bounds(&group_active.group, cx): None when no such group is painted.
GroupBoxes == {None} \cup {Some(b) : b \in Boxes}

\* ActiveState::default()
Inactive == [group |-> FALSE, element |-> FALSE]

\* ActiveState::is_none
IsNone(st) == ~st.group /\ ~st.element

NoBox == [lo |-> 0, hi |-> 0]

Phases == {<<"Capture", "Bubble">>, <<"Capture">>}

\* DivState::default(); nothing is painted yet.
InitDiv ==
    /\ active_state = Inactive
    /\ listener = [kind |-> "none", bounds |-> NoBox, group_bounds |-> None]
    /\ style = [group_active |-> FALSE, active |-> FALSE]
    /\ pressed = FALSE
    /\ dirty = FALSE

\* compute_style: the group's active style and the element's are refined into
\* the style when the state says so.
ComputeStyle(st) == [group_active |-> st.group, active |-> st.element]

\* paint_active_listener: a mouse-down listener when the state is none, a
\* mouse-up listener otherwise.  The mouse-down closure captures the bounds.
PaintActiveListener(st, bounds, gb) ==
    IF IsNone(st)
    THEN [kind |-> "down", bounds |-> bounds, group_bounds |-> gb]
    ELSE [kind |-> "up", bounds |-> NoBox, group_bounds |-> None]

\* The mouse-down closure, called with an event at p in a phase.
OnMouseDown(l, st, p, phase) ==
    IF l.kind = "down" /\ phase = "Bubble"
    THEN LET group == l.group_bounds # None /\ ContainsPoint(l.group_bounds.val, p)
             element == ContainsPoint(l.bounds, p)
         IN IF group \/ element
            THEN [state |-> [group |-> group, element |-> element], notify |-> TRUE]
            ELSE [state |-> st, notify |-> FALSE]
    ELSE [state |-> st, notify |-> FALSE]

\* The mouse-up closure.
OnMouseUp(l, st, phase) ==
    IF l.kind = "up" /\ phase = "Capture"
    THEN [state |-> Inactive, notify |-> TRUE]
    ELSE [state |-> st, notify |-> FALSE]

\* Div::paint with the bounds the layout gave the element and its active group.
Paint(bounds, gb) ==
    /\ style' = ComputeStyle(active_state)
    /\ listener' = PaintActiveListener(active_state, bounds, gb)
    /\ dirty' = FALSE
    /\ UNCHANGED <<active_state, pressed>>
    /\ UNCHANGED <<handleVars, outputVars, pickerVars>>

\* The window dispatches a MouseDownEvent at p through the phases.
MouseDown(p, phases) ==
    /\ ~pressed
    /\ pressed' = TRUE
    /\ LET first == OnMouseDown(listener, active_state, p, phases[1])
           last  == IF Len(phases) = 2
                    THEN OnMouseDown(listener, first.state, p, phases[2])
                    ELSE [state |-> first.state, notify |-> FALSE]
       IN /\ active_state' = last.state
          /\ dirty' = (dirty \/ first.notify \/ last.notify)
    /\ UNCHANGED <<listener, style>>
    /\ UNCHANGED <<handleVars, outputVars, pickerVars>>

\* The window dispatches a MouseUpEvent through both phases.
MouseUp ==
    /\ pressed
    /\ pressed' = FALSE
    /\ LET first == OnMouseUp(listener, active_state, "Capture")
           last  == OnMouseUp(listener, first.state, "Bubble")
       IN /\ active_state' = last.state
          /\ dirty' = (dirty \/ first.notify \/ last.notify)
    /\ UNCHANGED <<listener, style>>
    /\ UNCHANGED <<handleVars, outputVars, pickerVars>>

NextDiv ==
    \/ \E b \in Boxes, gb \in GroupBoxes : Paint(b, gb)
    \/ \E p \in Points, phases \in Phases : MouseDown(p, phases)
    \/ MouseUp

(***************************************************************************)
(* Specifications                                                          *)
(***************************************************************************)
\* The handle alone: it is constructed with or without a capture, whose drains
\* do not run.
InitHandleAlone ==
    /\ InitHandle
    /\ stream = [s \in Streams |-> << >>]
    /\ pos = [s \in Streams |-> 0]
    /\ pc = [s \in Streams |-> "read"]
    /\ buffer = [s \in Streams |-> << >>]
    /\ full_output = << >>
    /\ chan = << >>
    /\ received = << >>
    /\ rxOpen = TRUE
    /\ sendFailed = FALSE
    /\ fo = [c \in Callers |-> [pc |-> "idle", ret |-> None]]
    /\ lock = Unlocked
    /\ eos = FALSE
    /\ InitPicker
    /\ InitDiv

SpecHandle == InitHandleAlone /\ [][NextHandle]_vars

\* Longest content of stderr enumerated where the capture runs alone.  The two
\* drains run the same code, so the longer stream is taken to be stdout.
MaxStderrLen == 1

\* The output capture alone: its handle is constructed and nobody touches it.
InitOutputAlone ==
    /\ InitOutput
    /\ Len(stream["stderr"]) <= MaxStderrLen
    /\ InitHandle
    /\ output = Some(1)
    /\ InitPicker
    /\ InitDiv

SpecOutput == InitOutputAlone /\ [][NextOutput]_vars

\* The whole program.  No action of the handle reads or writes a variable of the
\* capture, and no action of the capture one of the handle, so what holds of the
\* one under its own specification holds of it in the whole.
Init == InitHandle /\ InitOutput /\ InitPicker /\ InitDiv

Next ==
    \/ NextHandle
    \/ NextOutput
    \/ \E k \in Subscribers : Recv(k)
    \/ \E c \in Callers : FullOutputCall(c)
    \/ \E c \in Callers : FullOutputReturn(c)

Spec == Init /\ [][Next]_vars

\* Longest stream content enumerated where the capture runs together with its
\* callers, its readers or the handle.
MaxJointLen == 1

\* The capture and the callers of full_output(); nobody reads the channel.
InitCalls ==
    /\ InitOutput
    /\ \A s \in Streams : Len(stream[s]) <= MaxJointLen
    /\ InitHandle
    /\ output = Some(1)
    /\ InitPicker
    /\ InitDiv

SpecCalls == InitCalls /\ [][NextCalls]_vars

\* The background executor runs a drain that can take a step, a read of a stream
\* the child has closed returns, and the caller's executor runs a Task whose join
\* is ready.
FairCalls ==
    /\ \A s \in Streams : WF_vars(DrainStep(s))
    /\ \A c \in Callers : WF_vars(FullOutputReturn(c))

SpecCallsFair == SpecCalls /\ FairCalls

\* The capture and the holders of subscribe()'s receiver, each of which may take
\* the next line at any moment.
NextReaders ==
    \/ \E s \in Streams : DrainRead(s)
    \/ \E s \in Streams : DrainReadError(s)
    \/ \E s \in Streams : DrainPush(s)
    \/ \E s \in Streams : DrainSend(s)
    \/ \E s \in Streams : DrainYield(s)
    \/ \E k \in Subscribers : Recv(k)
    \/ DropReceiver

SpecReaders == InitCalls /\ [][NextReaders]_vars

\* One handle constructed with a capture, the capture's drains, and one caller
\* of full_output(): the handle is awaited and cancelled while the drains run.
\* The holder's polls that return Pending only register a waker and are left to
\* SpecHandle.
NextJoint ==
    \/ \E r \in ProcResults : ProcessResolves(r)
    \/ TaskPoll
    \/ Cancel
    \/ HandlePoll(1)
    \/ \E s \in Streams : DrainRead(s)
    \/ \E s \in Streams : DrainReadError(s)
    \/ \E s \in Streams : DrainPush(s)
    \/ \E s \in Streams : DrainSend(s)
    \/ \E s \in Streams : DrainYield(s)
    \/ FullOutputCall(1)
    \/ FullOutputReturn(1)

SpecJoint == InitCalls /\ [][NextJoint]_vars

\* A handle whose process sleeps for ever: the process future stays pending.
NextSleeping ==
    \/ TaskPoll
    \/ Cancel
    \/ \E h, n \in HandleIds : CloneHandle(h, n)
    \/ \E h \in HandleIds : HandlePollPending(h)
    \/ \E h \in HandleIds : HandlePoll(h)

\* An await in progress: the holder's poll returned Pending and left a waker, and
\* the holder polls again when woken.
AwaitResumes(h) == h \in waiting /\ HandlePoll(h)

\* abort() wakes the Task and the executor polls a woken Task; the Task's end
\* wakes the wakers the Shared holds and each holder's executor polls it again.
FairSleeping ==
    /\ WF_vars(TaskPoll)
    /\ \A h \in HandleIds : WF_vars(AwaitResumes(h))

SpecSleeping == InitHandleAlone /\ [][NextSleeping]_vars /\ FairSleeping

\* The capture and the callers of full_output() with the lock visible.  The
\* executors run a task that can take a step.
FairLock ==
    /\ \A s \in Streams : WF_vars(DrainStepLocked(s))
    /\ \A c \in Callers : WF_vars(FullOutputSnapshot(c))

SpecLock == InitCalls /\ [][NextLock]_vars /\ FairLock

\* The same, and parking_lot's Mutex hands the lock to a waiter in the end: a
\* caller that finds the lock free again and again gets it.
FairLockHandOff ==
    /\ FairLock
    /\ \A c \in Callers : SF_vars(FullOutputLock(c))

SpecLockHandOff == InitCalls /\ [][NextLock]_vars /\ FairLockHandOff

\* The drains and the terminal that reads the subscribed receiver to its end, or
\* drops it.
NextEnd ==
    \/ \E s \in Streams : DrainRead(s)
    \/ \E s \in Streams : DrainReadError(s)
    \/ \E s \in Streams : DrainPush(s)
    \/ \E s \in Streams : DrainSend(s)
    \/ \E s \in Streams : DrainYield(s)
    \/ Recv("terminal")
    \/ RecvEnd("terminal")
    \/ DropReceiver

\* The background executor runs each drain to its end, and the terminal polls
\* the receiver for as long as it holds it.
FairEnd ==
    /\ \A s \in Streams : WF_vars(DrainStep(s))
    /\ WF_vars(Recv("terminal") \/ RecvEnd("terminal"))

SpecEnd == InitCalls /\ [][NextEnd]_vars /\ FairEnd

\* The picker alone, opened over an inventory of NumRunnables runnables, and one
\* Div alone: the handle and the capture are constructed and nobody touches
\* them.
InitUiAlone ==
    /\ InitHandleAlone
    /\ output = None

SpecPicker == InitUiAlone /\ [][NextPicker]_vars

SpecDiv == InitUiAlone /\ [][NextDiv]_vars

(***************************************************************************)
(* What the holders of a handle have observed                              *)
(***************************************************************************)
\* The values awaits have resolved to.
AwaitValues == {awaited[h].val : h \in {k \in handles : awaited[k].tag = "Some"}}

\* The values calls of result() have returned inside Some.
ResultValues ==
    {resultLog[i].ret.val :
        i \in {k \in 1..Len(resultLog) : resultLog[k].ret.tag = "Some"}}

Observed == AwaitValues \cup ResultValues

\* The three outcomes of section 4.3: (a) success, (b) failure of the process,
\* (c) cancellation.
OutcomeClass(v) ==
    CASE v = Err(RunnableTerminated) -> "cancelled"
      [] v.tag = "Ok" /\ v.val.status \in {Ok(s) : s \in ExitStatuses} -> "success"
      [] v.tag = "Ok" /\ v.val.status \in {Err(e) : e \in ProcErrors} -> "failure"
      [] OTHER -> "none"

(***************************************************************************)
(* C1.  If cancel is invoked before the wrapped process future has         *)
(* completed, every await of the handle and of every clone resolves to     *)
(* RunnableTerminated, and every later call of result() returns            *)
(* Some(Err(RunnableTerminated)).  The calls of result() held to this are  *)
(* only those made after the executor has run the aborted Task.            *)
(***************************************************************************)
C1_CancelReachesEveryObserver ==
    /\ cancelledEarly =>
            \A h \in handles :
                awaited[h].tag = "Some" => awaited[h].val = Err(RunnableTerminated)
    /\ \A i \in 1..Len(resultLog) :
            (resultLog[i].cancelled /\ resultLog[i].finished) =>
                resultLog[i].ret = Some(Err(RunnableTerminated))

\* What does hold after an early cancel: awaits resolve to RunnableTerminated and
\* result() returns None or Some(Err(RunnableTerminated)), never an exit status.
CancelNeverReportsStatus ==
    /\ cancelledEarly =>
            \A h \in handles :
                awaited[h].tag = "Some" => awaited[h].val = Err(RunnableTerminated)
    /\ \A i \in 1..Len(resultLog) :
            resultLog[i].cancelled =>
                resultLog[i].ret \in {None, Some(Err(RunnableTerminated))}

(***************************************************************************)
(* C2.  result() returns None before completion or cancellation, and once  *)
(* a call of result() has returned Some(v), every later call, on any       *)
(* handle, returns Some(v).                                                *)
(***************************************************************************)
C2_ResultStable ==
    /\ \A i \in 1..Len(resultLog) :
            ~resultLog[i].finished => resultLog[i].ret = None
    /\ \A i, j \in 1..Len(resultLog) :
            (i < j /\ resultLog[i].ret.tag = "Some") =>
                resultLog[j].ret = resultLog[i].ret

(***************************************************************************)
(* C3.  Once the wrapped future has resolved or the handle has been        *)
(* cancelled, result() returns Some on every handle that has not itself    *)
(* been polled to completion, also when nobody has polled any handle.      *)
(***************************************************************************)
C3_ResultWithoutPolling ==
    task.tag = "Some" =>
        \A h \in handles : inner[h] => Result(h).tag = "Some"

(***************************************************************************)
(* C4.  All clones that have been awaited resolved to the same outcome,    *)
(* the outcome of the one Task, and the process future returned Ready at   *)
(* most once: exactly once when the outcome is the process's.              *)
(***************************************************************************)
C4_ClonesAgreeDrivenOnce ==
    /\ driven <= 1
    /\ \A h \in handles :
            awaited[h].tag = "Some" =>
                /\ task.tag = "Some"
                /\ awaited[h].val = PollOutput(task.val, output)
                /\ awaited[h].val.tag = "Ok" => driven = 1
                /\ \A k \in handles :
                        awaited[k].tag = "Some" => awaited[k] = awaited[h]

\* Every handle that can exist exists and has been awaited, and they resolved to
\* the process's result.
C4_Witness ==
    /\ handles = HandleIds
    /\ \A h \in handles : awaited[h].tag = "Some" /\ awaited[h].val.tag = "Ok"

(***************************************************************************)
(* C5.  Everything observed of a handle and its clones, by await or by     *)
(* result(), is one and the same outcome, and it is a success, a failure   *)
(* of the process, or the cancellation.                                    *)
(***************************************************************************)
C5_OneOutcome ==
    /\ Cardinality(Observed) <= 1
    /\ \A v \in Observed : OutcomeClass(v) \in {"success", "failure", "cancelled"}

\* An await and a result() have both observed the process's result although
\* cancel was invoked afterwards.
C5_Witness ==
    /\ aborted
    /\ AwaitValues # {}
    /\ ResultValues # {}
    /\ \E v \in Observed : v.tag = "Ok"

(***************************************************************************)
(* C6.  When the process future resolved with an error, an await yields    *)
(* the failure, which is neither the cancellation nor a success; when it   *)
(* resolved with an exit status, zero or not, an await yields a success    *)
(* that carries the status.                                                *)
(***************************************************************************)
C6_FailureIsDistinct ==
    \A h \in handles :
        (awaited[h].tag = "Some" /\ task.tag = "Some" /\ task.val.tag = "Ok") =>
            LET r == task.val.val
                v == awaited[h].val
            IN /\ r.tag = "Err" =>
                    /\ OutcomeClass(v) = "failure"
                    /\ v # Err(RunnableTerminated)
                    /\ v.tag = "Ok" /\ v.val.status = r
               /\ r.tag = "Ok" =>
                    /\ OutcomeClass(v) = "success"
                    /\ v.tag = "Ok" /\ v.val.status = r

\* An await has resolved after the process failed to launch.
C6_Witness ==
    \E h \in handles :
        /\ awaited[h].tag = "Some"
        /\ procFut = Ready(Err("launch"))
        /\ task = Some(Ok(Err("launch")))

(***************************************************************************)
(* C7.  When the process exited with status S and the handle's Task saw    *)
(* it, an await of a handle constructed with output = None yields          *)
(* Ok(ExecutionResult{status: Ok(S), output: None}); and every             *)
(* ExecutionResult produced by await or by result() carries the output     *)
(* the handle was constructed with.                                        *)
(***************************************************************************)
C7_StatusAndOutput ==
    /\ \A h \in handles :
            (/\ awaited[h].tag = "Some"
             /\ task.tag = "Some" /\ task.val.tag = "Ok"
             /\ procFut.val.tag = "Ok"
             /\ output = None) =>
                awaited[h].val = Ok(ExecutionResult(procFut.val, None))
    /\ \A v \in Observed :
            v.tag = "Ok" => v.val.output = output /\ v.val.status = procFut.val

\* A process started without capture exited with status 1 and was awaited.
C7_Witness ==
    /\ output = None
    /\ procFut = Ready(Ok(1))
    /\ \E h \in handles :
            awaited[h] = Some(Ok(ExecutionResult(Ok(1), None)))

(***************************************************************************)
(* What the capture is measured against                                    *)
(***************************************************************************)
BothFinished == \A s \in Streams : pc[s] \in {"done", "failed"}

\* The lines of a byte string, split byte by byte: a line ends with its newline,
\* and the last one ends with the string.
RECURSIVE SplitLines(_, _, _)
SplitLines(bytes, cur, acc) ==
    IF bytes = << >> THEN (IF cur = << >> THEN acc ELSE Append(acc, cur))
    ELSE IF Head(bytes) = NL
         THEN SplitLines(Tail(bytes), << >>, Append(acc, Append(cur, NL)))
         ELSE SplitLines(Tail(bytes), Append(cur, Head(bytes)), acc)

\* The lines the drain of s has read so far, as text.
LinesRead(s) ==
    LET ls == SplitLines(SubSeq(stream[s], 1, pos[s]), << >>, << >>)
    IN [i \in 1..Len(ls) |-> FromUtf8Lossy(ls[i])]

IsPrefix(a, b) == Len(a) <= Len(b) /\ SubSeq(b, 1, Len(a)) = a

\* text is an interleaving of the lines of as and of bs: each line whole, once,
\* and each list in its own order.
RECURSIVE IsInterleaving(_, _, _)
IsInterleaving(text, as, bs) ==
    IF as = << >> /\ bs = << >> THEN text = << >>
    ELSE \/ /\ as # << >>
            /\ IsPrefix(Head(as), text)
            /\ IsInterleaving(SubSeq(text, Len(Head(as)) + 1, Len(text)), Tail(as), bs)
         \/ /\ bs # << >>
            /\ IsPrefix(Head(bs), text)
            /\ IsInterleaving(SubSeq(text, Len(Head(bs)) + 1, Len(text)), as, Tail(bs))

RECURSIVE Flatten(_)
Flatten(ls) == IF ls = << >> THEN << >> ELSE Head(ls) \o Flatten(Tail(ls))

\* The lines emitted on the channel, in the order of emission: those taken from
\* it, then those queued.
Emitted == received \o chan

RECURSIVE TextsFrom(_, _)
TextsFrom(msgs, s) ==
    IF msgs = << >> THEN << >>
    ELSE IF Head(msgs).src = s
         THEN <<Head(msgs).text>> \o TextsFrom(Tail(msgs), s)
         ELSE TextsFrom(Tail(msgs), s)

RECURSIVE Texts(_)
Texts(msgs) ==
    IF msgs = << >> THEN << >> ELSE <<Head(msgs).text>> \o Texts(Tail(msgs))

(***************************************************************************)
(* C8.  Once both drains have finished, the accumulated text is an         *)
(* interleaving of the lines read from stdout and from stderr: every line  *)
(* once, each stream's lines in the stream's order.                        *)
(***************************************************************************)
C8_BufferIsInterleaving ==
    BothFinished =>
        IsInterleaving(full_output, LinesRead("stdout"), LinesRead("stderr"))

\* Both streams were read to their end, stdout had two lines, and the line of
\* stderr went into the buffer between them.
C8_Witness ==
    /\ \A s \in Streams : pc[s] = "done"
    /\ Len(LinesRead("stdout")) = 2
    /\ Len(LinesRead("stderr")) = 1
    /\ full_output = LinesRead("stdout")[1] \o LinesRead("stderr")[1]
                        \o LinesRead("stdout")[2]
    /\ LinesRead("stderr")[1] # LinesRead("stdout")[2]

(***************************************************************************)
(* C9.  Once both drains have finished, the accumulation buffer equals the *)
(* concatenation of the lines emitted on the channel, in the order of      *)
(* their emission.  (Stated for a receiving end that is still held.)       *)
(***************************************************************************)
C9_BufferInChannelOrder ==
    (BothFinished /\ rxOpen) => full_output = Flatten(Texts(Emitted))

(***************************************************************************)
(* C9, amended.  Once both drains have finished, and the receiving end is  *)
(* still held, the channel was sent every line read, each stream's lines   *)
(* in the stream's order, and the buffer is an interleaving of the lines   *)
(* each stream emitted on the channel; the order across the two streams    *)
(* may differ between the buffer and the channel.                          *)
(***************************************************************************)
C9_BufferInterleavesChannel ==
    (BothFinished /\ rxOpen) =>
        /\ \A s \in Streams : TextsFrom(Emitted, s) = LinesRead(s)
        /\ Len(full_output) = Len(Flatten(Texts(Emitted)))
        /\ IsInterleaving(full_output, TextsFrom(Emitted, "stdout"),
                          TextsFrom(Emitted, "stderr"))

\* Both drains have finished and the buffer holds the two streams' lines in the
\* other order than the channel.
C9_Witness ==
    /\ BothFinished /\ rxOpen
    /\ Len(Emitted) = 2
    /\ Emitted[1].src # Emitted[2].src
    /\ full_output = Emitted[2].text \o Emitted[1].text
    /\ full_output # Flatten(Texts(Emitted))

(***************************************************************************)
(* C10.  At every moment the lines a stream has emitted on the channel     *)
(* are, in the order of emission, the first lines its drain read, in the   *)
(* order it read them.                                                     *)
(***************************************************************************)
C10_ChannelKeepsStreamOrder ==
    \A s \in Streams : IsPrefix(TextsFrom(Emitted, s), LinesRead(s))

\* stdout emitted two different lines and stderr emitted one between them.
C10_Witness ==
    /\ Len(Emitted) = 3
    /\ Emitted[1].src = "stdout"
    /\ Emitted[2].src = "stderr"
    /\ Emitted[3].src = "stdout"
    /\ Emitted[1].text # Emitted[3].text

(***************************************************************************)
(* What each drain has done with the lines it read                         *)
(***************************************************************************)
AllButLast(ls) == SubSeq(ls, 1, Len(ls) - 1)

\* The lines of s that push_str has appended: all it read, but the one in the
\* scratch buffer while the drain stands before push_str.
Pushed(s) == IF pc[s] = "push" THEN AllButLast(LinesRead(s)) ELSE LinesRead(s)

\* The lines of s that unbounded_send has been called with: all it read, but the
\* one in the scratch buffer while the drain stands before the send.
Sent(s) == IF pc[s] \in {"push", "send"} THEN AllButLast(LinesRead(s)) ELSE LinesRead(s)

\* The stream does not end with a newline.
Unterminated(s) == stream[s] # << >> /\ stream[s][Len(stream[s])] # NL

\* The bytes after the last newline of the stream.
TailSegment(bytes) ==
    LET nls == {i \in 1..Len(bytes) : bytes[i] = NL}
        from == IF nls = {} THEN 0 ELSE CHOOSE i \in nls : \A j \in nls : j <= i
    IN SubSeq(bytes, from + 1, Len(bytes))

(***************************************************************************)
(* C12.  When a stream ends with a segment that has no newline and its     *)
(* drain has ended normally, the drain has read the whole stream, the      *)
(* segment is the last line it appended to the accumulation buffer, which  *)
(* holds every line appended so far, and, the receiving end being held,    *)
(* the segment is the last line the drain sent on the channel.             *)
(***************************************************************************)
C12_TrailingSegmentFlushed ==
    \A s \in Streams :
        (pc[s] = "done" /\ Unterminated(s)) =>
            LET seg == FromUtf8Lossy(TailSegment(stream[s])) IN
            /\ pos[s] = Len(stream[s])
            /\ Pushed(s) # << >> /\ Pushed(s)[Len(Pushed(s))] = seg
            /\ IsInterleaving(full_output, Pushed("stdout"), Pushed("stderr"))
            /\ rxOpen =>
                    LET sent == TextsFrom(Emitted, s)
                    IN sent # << >> /\ sent[Len(sent)] = seg

\* stdout was a line and then a byte that is no newline; its drain ended normally
\* and the byte is the end of the buffer and the last item on the channel.
C12_Witness ==
    /\ stream["stdout"] = <<NL, 120>>
    /\ stream["stderr"] = << >>
    /\ \A s \in Streams : pc[s] = "done"
    /\ full_output = <<NL, 120>>
    /\ rxOpen
    /\ Texts(Emitted) = << <<NL>>, <<120>> >>

\* All the lines of the stream of s, as text.
StreamLines(s) ==
    LET ls == SplitLines(stream[s], << >>, << >>)
    IN [i \in 1..Len(ls) |-> FromUtf8Lossy(ls[i])]

(***************************************************************************)
(* C16.  A send that finds the receiving end gone changes nothing and the  *)
(* drain goes on to its yield; and after a send has failed, the buffer     *)
(* still holds every line appended by either drain, and a drain that has   *)
(* ended normally has read and appended every line of its stream.          *)
(***************************************************************************)
C16_SendFailureIgnored ==
    /\ [][\A s \in Streams :
            (pc[s] = "send" /\ ~rxOpen /\ pc'[s] # pc[s]) =>
                /\ pc'[s] = "yield"
                /\ UNCHANGED <<stream, pos, buffer, full_output, chan, received>>]_vars
    /\ [](sendFailed =>
            /\ IsInterleaving(full_output, Pushed("stdout"), Pushed("stderr"))
            /\ \A s \in Streams :
                    pc[s] = "done" => pos[s] = Len(stream[s]) /\ Pushed(s) = StreamLines(s))

\* The first line of stdout was received, then the receiving end was dropped and
\* the send of the second line failed; the drain ended normally and the buffer
\* holds both lines.
C16_Witness ==
    /\ sendFailed /\ ~rxOpen
    /\ stream["stdout"] = <<NL, 120>>
    /\ pc["stdout"] = "done"
    /\ Texts(received) = << <<NL>> >>
    /\ full_output = <<NL, 120>>

(***************************************************************************)
(* C20.  At every moment the accumulation buffer is made of the lines the  *)
(* drains have appended, each whole; the items a stream has put on the     *)
(* channel are, one item per segment read, the first of the lines its      *)
(* drain has appended; and so are the items a subscriber has received.     *)
(* While the receiving end is held, the items put on the channel are       *)
(* exactly the segments the send has been reached with.                    *)
(***************************************************************************)
C20_AppendedBeforeSent ==
    /\ IsInterleaving(full_output, Pushed("stdout"), Pushed("stderr"))
    /\ \A s \in Streams :
            /\ IsPrefix(TextsFrom(Emitted, s), Pushed(s))
            /\ IsPrefix(TextsFrom(received, s), TextsFrom(Emitted, s))
            /\ rxOpen => TextsFrom(Emitted, s) = Sent(s)

\* The first line of stdout has been received; the second is in the buffer and
\* has not been sent yet.
C20_Witness ==
    /\ pc["stdout"] = "send"
    /\ Len(Pushed("stdout")) = 2
    /\ Texts(received) = <<Pushed("stdout")[1]>>
    /\ chan = << >>
    /\ full_output = Pushed("stdout")[1] \o Pushed("stdout")[2]

\* What the holders get when the process's result r is the outcome.
ProcessOutcome == PollOutput(Ok(procFut.val), output)

(***************************************************************************)
(* C19.  If cancel was invoked after the process future completed and the  *)
(* Shared memoized its result, every await of a handle has resolved to the *)
(* process's result and result() returns, on every handle, Some of the     *)
(* process's result.                                                       *)
(***************************************************************************)
C19_LateCancelKeepsResult ==
    cancelledLate =>
        \A h \in handles :
            /\ awaited[h].tag = "Some" => awaited[h].val = ProcessOutcome
            /\ Result(h) = Some(ProcessOutcome)

\* What does hold after such a cancel: no await and no result() yields the
\* cancellation, every await that is still to come yields the process's result,
\* and result() returns Some of it on every handle that has not itself been
\* polled to completion.
LateCancelNeverTerminates ==
    cancelledLate =>
        /\ SharedPoll = Ready(Ok(procFut.val))
        /\ \A h \in handles :
            /\ awaited[h].tag = "Some" => awaited[h].val = ProcessOutcome
            /\ Result(h) \in {None, Some(ProcessOutcome)}
            /\ inner[h] => Result(h) = Some(ProcessOutcome)
        /\ \A i \in 1..Len(resultLog) :
            resultLog[i].ret.tag = "Some" => resultLog[i].ret.val = ProcessOutcome

\* The cancel itself changes neither what result() returns on any handle nor what
\* a poll of the Shared returns, once the Task has finished.
LateCancelChangesNothing ==
    [][(aborted' # aborted /\ task.tag = "Some") =>
            /\ SharedPoll' = SharedPoll
            /\ awaited' = awaited
            /\ \A h \in handles : Result(h)' = Result(h)]_vars

(***************************************************************************)
(* C11.  A call of full_output() that has returned did so after both       *)
(* drains finished and returned the accumulated text as it is then and     *)
(* stays: all the lines read, and the same for every caller and every      *)
(* call; a call that returned leaves the next one able to return; and      *)
(* every call that is waiting returns.                                     *)
(***************************************************************************)
C11_FullOutputAfterBothDrains ==
    /\ [](\A c \in Callers :
            fo[c].ret # None =>
                /\ BothFinished
                /\ fo[c].ret = Some(full_output)
                /\ IsInterleaving(full_output, LinesRead("stdout"), LinesRead("stderr"))
                /\ \A d \in Callers : fo[d].ret # None => fo[d].ret = fo[c].ret)
    /\ \A c \in Callers : (fo[c].pc = "joining") ~> (fo[c].pc = "done")

\* Caller 1 has called again after its first call returned, caller 2's call has
\* returned, and both got the one line of stdout and the one of stderr.
C11_Witness ==
    /\ fo[1].pc = "joining" /\ fo[1].ret # None
    /\ fo[2].pc = "done"
    /\ fo[2].ret = fo[1].ret
    /\ Len(LinesRead("stdout")) = 1 /\ Len(LinesRead("stderr")) = 1
    /\ fo[2].ret = Some(LinesRead("stderr")[1] \o LinesRead("stdout")[1])

\* What reader k has taken from the receiver, in order.
GotBy(k) == SelectSeq(received, LAMBDA m : m.by = k)

RECURSIVE SumLen(_, _)
SumLen(f, ks) ==
    IF ks = {} THEN 0
    ELSE LET k == CHOOSE x \in ks : TRUE IN Len(f[k]) + SumLen(f, ks \ {k})

(***************************************************************************)
(* C18.  The readers of subscribe()'s receiver take from one queue: for    *)
(* each stream, the lines all readers have taken, in the order they were   *)
(* taken, are the first lines the stream's drain sent, each once, so that  *)
(* the readers together hold no more lines of the stream than were sent;   *)
(* and while the receiver is held, the lines taken and the lines queued    *)
(* are exactly the lines sent.                                             *)
(***************************************************************************)
C18_ReadersShareOneQueue ==
    \A s \in Streams :
        /\ IsPrefix(TextsFrom(received, s), Sent(s))
        /\ SumLen([k \in Subscribers |-> TextsFrom(GotBy(k), s)], Subscribers)
                <= Len(Sent(s))
        /\ rxOpen => TextsFrom(Emitted, s) = Sent(s)

\* Two lines were sent; the terminal took the first and the tracker the second.
C18_Witness ==
    /\ Len(GotBy("terminal")) = 1
    /\ Len(GotBy("tracker")) = 1
    /\ received[1].by = "terminal"
    /\ received[1].src # received[2].src
    /\ chan = << >>
    /\ BothFinished

(***************************************************************************)
(* C13.  The step that cancels the handle changes nothing of the capture:  *)
(* not where the drains stand, nor the buffer, nor the channel, nor a      *)
(* pending call of full_output().  After it, a drain that has not ended    *)
(* can take its next step, the buffer holds every line appended before or  *)
(* after the cancel, a drain that ended normally has read its stream to    *)
(* the end, a waiting full_output() returns once both drains have ended,   *)
(* and what it returned is the buffer with all the lines read.             *)
(***************************************************************************)
C13_CancelLeavesCapture ==
    /\ [][aborted' # aborted => UNCHANGED outputVars]_vars
    /\ [](aborted =>
            /\ \A s \in Streams :
                    /\ pc[s] \notin {"done", "failed"} => ENABLED DrainStep(s)
                    /\ pc[s] = "done" =>
                            pos[s] = Len(stream[s]) /\ Pushed(s) = StreamLines(s)
            /\ IsInterleaving(full_output, Pushed("stdout"), Pushed("stderr"))
            /\ (fo[1].pc = "joining" /\ BothFinished) => ENABLED FullOutputReturn(1)
            /\ fo[1].ret # None =>
                    /\ BothFinished
                    /\ fo[1].ret = Some(full_output)
                    /\ IsInterleaving(full_output, LinesRead("stdout"),
                                      LinesRead("stderr")))

\* The handle was cancelled before the process ended and its await resolved to
\* the cancellation; both drains went on to the end of their streams, and
\* full_output() returned the line of stdout and the line of stderr.
C13_Witness ==
    /\ cancelledEarly
    /\ procFut = Pending
    /\ awaited[1] = Some(Err(RunnableTerminated))
    /\ \A s \in Streams : pc[s] = "done" /\ Len(stream[s]) = 1
    /\ fo[1].pc = "done"
    /\ fo[1].ret = Some(StreamLines("stdout")[1] \o StreamLines("stderr")[1])

(***************************************************************************)
(* C15.  The step in which a drain's read fails changes nothing of the     *)
(* handle, of the accumulation buffer, of the channel, of the other drain  *)
(* or of a call of full_output().  After it the other drain can take its   *)
(* next step and, when it ends normally, has read its whole stream; the    *)
(* buffer holds every line appended, those of the failed stream included;  *)
(* a waiting full_output() returns once the other drain has ended; and     *)
(* the handle resolves, to the process's result unless it was cancelled.   *)
(***************************************************************************)
C15_ReadErrorEndsOneDrain ==
    /\ [][\A s \in Streams :
            (pc[s] # "failed" /\ pc'[s] = "failed") =>
                /\ UNCHANGED <<uiVars, handleVars, full_output, chan, received, fo, pos>>
                /\ \A t \in Streams \ {s} : pc'[t] = pc[t] /\ buffer'[t] = buffer[t]]_vars
    /\ [](\A s \in Streams :
            pc[s] = "failed" =>
                /\ \A t \in Streams \ {s} :
                        /\ pc[t] \notin {"done", "failed"} => ENABLED DrainStep(t)
                        /\ pc[t] = "done" =>
                                pos[t] = Len(stream[t]) /\ Pushed(t) = StreamLines(t)
                /\ IsInterleaving(full_output, Pushed("stdout"), Pushed("stderr"))
                /\ (fo[1].pc = "joining" /\ BothFinished) => ENABLED FullOutputReturn(1)
                /\ fo[1].ret # None => fo[1].ret = Some(full_output)
                /\ (task.tag = "Some" /\ inner[1]) => ENABLED HandlePoll(1)
                /\ (task.tag = "Some" /\ ~cancelledEarly) => task.val = Ok(procFut.val)
                /\ (awaited[1].tag = "Some" /\ ~cancelledEarly) =>
                        awaited[1].val = ProcessOutcome)

\* The drain of stdout appended one line and its next read failed; the drain of
\* stderr ended normally, full_output() returned both lines, and the await of the
\* handle yielded the exit status.
C15_Witness ==
    /\ pc["stdout"] = "failed" /\ Len(Pushed("stdout")) = 1
    /\ pc["stderr"] = "done" /\ Len(stream["stderr"]) = 1
    /\ fo[1].ret = Some(Pushed("stdout")[1] \o Pushed("stderr")[1])
    /\ awaited[1] = Some(Ok(ExecutionResult(Ok(0), output)))

(***************************************************************************)
(* C17.  No step of the handle changes anything of the capture and no      *)
(* step of the capture anything of the handle.  Whatever the drains have   *)
(* done, the handle resolves as soon as its Task has finished, and its     *)
(* Task can finish; whatever the handle has done, a drain that has not     *)
(* ended can take its next step and ends with its stream read whole,       *)
(* full_output() can be called, and a waiting call returns once both       *)
(* drains have ended, also while the process future is pending.            *)
(***************************************************************************)
C17_HandleAndDrainsIndependent ==
    /\ [][/\ handleVars' # handleVars => UNCHANGED outputVars
          /\ outputVars' # outputVars => UNCHANGED handleVars]_vars
    /\ [](/\ (task = None /\ (procFut # Pending \/ aborted)) => ENABLED TaskPoll
          /\ (task.tag = "Some" /\ inner[1]) => ENABLED HandlePoll(1)
          /\ \A s \in Streams :
                /\ pc[s] \notin {"done", "failed"} => ENABLED DrainStep(s)
                /\ pc[s] = "done" => pos[s] = Len(stream[s])
          /\ fo[1].pc \in {"idle", "done"} => ENABLED FullOutputCall(1)
          /\ (fo[1].pc = "joining" /\ BothFinished) => ENABLED FullOutputReturn(1))

\* The await of the handle has yielded the exit status while the drain of stdout
\* stands before its first read; the drain of stderr has a line in its scratch
\* buffer.
C17_Witness ==
    /\ awaited[1] = Some(Ok(ExecutionResult(Ok(0), output)))
    /\ pc["stdout"] = "read" /\ pos["stdout"] = 0 /\ Len(stream["stdout"]) = 1
    /\ pc["stderr"] = "push"
    /\ fo[1].pc = "joining"

\* The other way round: both drains have ended and full_output() has returned
\* their lines while the process future is pending and nobody has polled the
\* handle.
C17_DrainsFirst ==
    /\ procFut = Pending /\ ~aborted /\ task = None /\ awaited[1] = None
    /\ \A s \in Streams : pc[s] = "done" /\ Len(stream[s]) = 1
    /\ fo[1].pc = "done" /\ fo[1].ret = Some(full_output)
    /\ Len(full_output) = 2

(***************************************************************************)
(* C14.  With a process future that stays pending for ever: once cancel    *)
(* has been invoked, every await in progress resolves, and every await     *)
(* that has resolved yielded the cancellation.                             *)
(***************************************************************************)
C14_CancelEndsEveryAwait ==
    /\ [](procFut = Pending)
    /\ [](\A h \in HandleIds :
            awaited[h].tag = "Some" => awaited[h].val = Err(RunnableTerminated))
    /\ \A h \in HandleIds :
            (aborted /\ h \in waiting) ~> (awaited[h].tag = "Some")

\* Cancel came while the process future was pending; the handle and two clones
\* have been awaited and all three awaits resolved to the cancellation, the
\* process future still pending.
C14_Witness ==
    /\ procFut = Pending
    /\ cancelledEarly
    /\ waiting = {}
    /\ handles = HandleIds
    /\ \A h \in handles : awaited[h] = Some(Err(RunnableTerminated))

(***************************************************************************)
(* C21.  A drain holds the lock of the accumulation buffer only between    *)
(* the lock and the end of its push_str: never while it stands before a    *)
(* read, the send or the yield, or after it has ended.  A caller of        *)
(* full_output() holds it only while its call waits with both drains       *)
(* ended.  Whoever holds the lock can release it with its next step, the   *)
(* lock is always released, and both drains come to their end.             *)
(***************************************************************************)
C21_NoLockAcrossSuspension ==
    /\ [](\A s \in Streams :
            lock = HeldByDrain(s) => pc[s] = "push" /\ ENABLED DrainPushLocked(s))
    /\ [](\A c \in Callers :
            lock = HeldByCaller(c) =>
                /\ fo[c].pc = "joining" /\ BothFinished
                /\ ENABLED FullOutputSnapshot(c))
    /\ (lock # Unlocked) ~> (lock = Unlocked)
    /\ <>BothFinished

\* With a Mutex that hands the lock to every waiter in the end, every call of
\* full_output() returns, whatever the other callers do.
CallersNotStarved ==
    \A c \in Callers : (fo[c].pc = "joining") ~> (fo[c].pc = "done")

\* The drain of stderr holds the lock for its append while the drain of stdout
\* waits for the lock with a line in its scratch buffer, and a call of
\* full_output() waits for the join.
C21_Witness ==
    /\ lock = HeldByDrain("stderr")
    /\ pc["stdout"] = "push" /\ buffer["stdout"] # << >>
    /\ fo[1].pc = "joining"

(***************************************************************************)
(* C22.  The receiving end reports the end of the stream only after both   *)
(* drains have terminated, each having dropped its sender, and after every *)
(* line a drain sent has been received; and once both drains have          *)
(* terminated, a reader that keeps the receiver is told that the stream    *)
(* is finished.                                                            *)
(***************************************************************************)
C22_EndOfStreamAfterBothDrains ==
    /\ [](eos => /\ BothFinished
                 /\ chan = << >>
                 /\ \A s \in Streams : TextsFrom(received, s) = LinesRead(s))
    /\ BothFinished ~> (eos \/ ~rxOpen)

C22_Witness ==
    /\ eos
    /\ pc["stdout"] = "failed"
    /\ pc["stderr"] = "done"
    /\ Len(received) = 2

(***************************************************************************)
(* C23.  At every confirm of the runnables picker that gets as far as      *)
(* indexing, selected_index < matches.len(), the match's candidate_id <    *)
(* candidates.len(), and candidates[candidate_id] is the runnable the      *)
(* match was computed from (it carries the name the match shows):          *)
(* under every interleaving with update_matches tasks in flight, and when  *)
(* matches is empty.                                                       *)
(***************************************************************************)
C23_ConfirmIndexesInBounds ==
    (lastConfirm # None /\ lastConfirm.val.outcome # "no_cwd") =>
        /\ lastConfirm.val.outcome \notin {"panic_matches", "panic_candidates"}
        /\ lastConfirm.val.named

\* The ways the indexing goes wrong, each of them reached:
\* matches[selected_index] on an empty matches, with no update in flight;
ConfirmOnEmptyMatches ==
    /\ lastConfirm # None /\ lastConfirm.val.outcome = "panic_matches"
    /\ matches = << >>
    /\ updates = << >>

\* candidates[ix] past the end of candidates an update in flight has shortened;
ConfirmPastCandidates ==
    /\ lastConfirm # None /\ lastConfirm.val.outcome = "panic_candidates"
    /\ \E t \in 1..Len(updates) : updates[t].pc = "matching"

\* and candidates[ix] in bounds, but another runnable than the match shows.
ConfirmSchedulesAnother ==
    /\ lastConfirm # None /\ lastConfirm.val.outcome = "scheduled"
    /\ ~lastConfirm.val.named

\* What holds of the code: while the candidates are the ones the installed
\* matches were computed from, a confirm on a listed match neither panics nor
\* schedules another runnable.
MatchesOfCandidates ==
    /\ matches # << >>
    /\ \A i \in 1..Len(matches) :
          /\ matches[i].candidate_id < Len(candidates)
          /\ DisplayName(candidates[matches[i].candidate_id + 1]) = matches[i].string

ConfirmRightOnFreshMatches ==
    [][\A cwdOk, schedOk \in BOOLEAN :
          (MatchesOfCandidates /\ Confirm(cwdOk, schedOk) /\ cwdOk) =>
              /\ lastConfirm'.val.outcome \in {"scheduled", "schedule_failed"}
              /\ lastConfirm'.val.named]_vars

(***************************************************************************)
(* C24.  Whenever an update_matches task finishes installing its matches,  *)
(* selected_index is 0 if matches is empty and otherwise the minimum of    *)
(* its previous value and matches.len() - 1, hence a valid index into the  *)
(* non-empty matches; also with several tasks in flight that complete in   *)
(* any order.                                                              *)
(***************************************************************************)
C24_SelectionClampedOnInstall ==
    [][\A t \in 1..Len(updates) :
          (pickerAlive /\ updates[t].pc = "matching" /\ updates' = RemoveAt(updates, t)) =>
              /\ selected_index' =
                    IF matches' = << >> THEN 0
                    ELSE Min(selected_index, Len(matches') - 1)
              /\ matches' # << >> => selected_index' < Len(matches')]_vars

\* A filtered list of matches is installed and the selection is on its last
\* entry, the list of candidates being longer, while another task is in flight.
C24_Witness ==
    /\ \E t \in 1..Len(updates) : updates[t].pc = "matching"
    /\ matches # << >>
    /\ Len(matches) < Len(candidates)
    /\ selected_index = Len(matches) - 1

\* The selection is an index of a listed match whenever there is one.
SelectionWithinMatches == matches # << >> => selected_index < Len(matches)

(***************************************************************************)
(* C25.  A Div's active state becomes active only through a bubble-phase   *)
(* mouse-down inside the element's bounds or its active group's bounds,    *)
(* and every mouse-up clears it: the element is never active while the     *)
(* button is released, also when the mouse-up is dispatched before the     *)
(* repaint the mouse-down asked for.                                       *)
(***************************************************************************)
C25_NeverActiveAfterRelease == ~pressed => IsNone(active_state)

\* The mouse-up came before the repaint: the element is left active, and the
\* repaint then shows it active with the button released.
ActiveAfterRelease ==
    /\ ~pressed
    /\ ~IsNone(active_state)
    /\ listener.kind = "up"
    /\ style.active

\* What holds of the code: the state becomes active only in the bubble phase of
\* a mouse-down inside the bounds captured by the last paint;
ActiveOnlyThroughMouseDown ==
    [][(IsNone(active_state) /\ ~IsNone(active_state')) =>
          /\ ~pressed /\ pressed'
          /\ listener.kind = "down"
          /\ \E p \in Points :
                /\ MouseDown(p, <<"Capture", "Bubble">>)
                /\ \/ ContainsPoint(listener.bounds, p)
                   \/ /\ listener.group_bounds # None
                      /\ ContainsPoint(listener.group_bounds.val, p)]_vars

\* and a mouse-up dispatched after the repaint clears it.
MouseUpAfterRepaintClears ==
    [][(pressed /\ ~pressed' /\ listener.kind = "up") => active_state' = Inactive]_vars

====
